---- MODULE Spec2Model ----
(***************************************************************************)
(* RefPreparer._rename_clusters (src/ariba/ref_preparer.py, lines 56-103). *)
(*                                                                         *)
(* Strings are sequences of character codes, so that comparison, sorting,  *)
(* splitting, concatenation and str() are computed as Python computes them.*)
(* A dict whose insertion order can be observed (new_clusters,             *)
(* names_before_dots) is a sequence of entries [k, v] in insertion order;  *)
(* key_count, whose order is never observed, is a function.                *)
(***************************************************************************)
EXTENDS Integers, Sequences, FiniteSets, TLC

VARIABLES
    clusters_in,        \* the argument: raw key -> set of member names
    items,              \* sorted(clusters_in.items()) of the running call
    idx,                \* number of loop iterations completed
    new_clusters,       \* local dict, in insertion order
    key_count,          \* local dict base name -> count
    names_before_dots,  \* local dict of the latest iteration, in insertion order
    derived,            \* history: new_key of every iteration started, in order
    pc,                 \* "idle" | "loop" | "returned" | "aborted"
    results             \* history: outcome of every call finished so far

vars == <<clusters_in, items, idx, new_clusters, key_count,
          names_before_dots, derived, pc, results>>

----------------------------------------------------------------------------
(* Bounds *)

MaxMembers == 4
MaxCalls == 2

----------------------------------------------------------------------------
(* Characters and strings *)

Ord ==
    [c \in {".", "+", "-", "_", "0", "1", "2", "9", "a", "b", "c",
            "e", "l", "r", "s", "t", "u", "x"} |->
        CASE c = "+" -> 43 [] c = "-" -> 45 [] c = "." -> 46
          [] c = "0" -> 48 [] c = "1" -> 49 [] c = "2" -> 50 [] c = "9" -> 57
          [] c = "_" -> 95
          [] c = "a" -> 97 [] c = "b" -> 98 [] c = "c" -> 99 [] c = "e" -> 101
          [] c = "l" -> 108 [] c = "r" -> 114 [] c = "s" -> 115
          [] c = "t" -> 116 [] c = "u" -> 117 [] c = "x" -> 120]

RECURSIVE Str(_)
Str(t) == IF t = <<>> THEN <<>> ELSE <<Ord[Head(t)]>> \o Str(Tail(t))

Dot == Ord["."]
Plus == Str(<<"+">>)
Minus == Str(<<"-">>)
Underscore == Str(<<"_">>)
SuffixOne == Str(<<"_", "1">>)
Cluster == Str(<<"c", "l", "u", "s", "t", "e", "r">>)

\* Python's < on str: code point by code point, a proper prefix is smaller.
RECURSIVE StrLess(_, _)
StrLess(a, b) ==
    IF b = <<>> THEN FALSE
    ELSE IF a = <<>> THEN TRUE
    ELSE IF Head(a) # Head(b) THEN Head(a) < Head(b)
    ELSE StrLess(Tail(a), Tail(b))

\* str(n) for n >= 0: decimal digits.
RECURSIVE IntStr(_)
IntStr(n) ==
    IF n < 10 THEN <<48 + n>>
    ELSE IntStr(n \div 10) \o <<48 + (n % 10)>>

\* '.' in name
HasDot(name) == \E i \in 1..Len(name) : name[i] = Dot

\* name.split('.')[0]: the text before the first '.', the whole name if none.
RECURSIVE SplitFirst(_)
SplitFirst(name) ==
    IF name = <<>> \/ Head(name) = Dot THEN <<>>
    ELSE <<Head(name)>> \o SplitFirst(Tail(name))

----------------------------------------------------------------------------
(* Inputs *)

\* Raw cluster keys, numbered consecutively as the clustering step does;
\* as strings "10", "11" and "12" sort before "9".
RawKeyList ==
    << Str(<<"9">>), Str(<<"1", "0">>), Str(<<"1", "1">>), Str(<<"1", "2">>) >>

RawKeys == {RawKeyList[i] : i \in 1..Len(RawKeyList)}

\* Member names: without '.', with a prefix shorter than min_prefix_length,
\* with prefixes that share a stem or none, and with a prefix that ends
\* like a collision suffix.
Identifiers ==
    { Str(<<"x">>),
      Str(<<"a", "b", ".", "1">>),
      Str(<<".", "1">>),
      Str(<<"a", "a", "b", ".", "1">>),
      Str(<<"c", "l", "u", ".", "1", ".", "2">>),
      Str(<<"c", "l", "u", "s", "t", "e", "r", "_", "1", ".", "1">>),
      Str(<<"c", "l", "u", "s", "t", "e", "r", "_", "1", ".", "2">>) }

\* The orders in which a set (or the keys of a dict) can be iterated.
RECURSIVE Orders(_)
Orders(S) ==
    IF S = {} THEN {<<>>}
    ELSE UNION {{<<x>> \o t : t \in Orders(S \ {x})} : x \in S}

\* clusters_in.items() for one insertion order of the argument.
RECURSIVE Items(_, _)
Items(c, order) ==
    IF order = <<>> THEN <<>>
    ELSE <<[k |-> Head(order), v |-> c[Head(order)]]>> \o Items(c, Tail(order))

----------------------------------------------------------------------------
(* Ordered dicts *)

DictKeys(d) == {d[i].k : i \in 1..Len(d)}
DictHas(d, k) == k \in DictKeys(d)
DictGet(d, k) == d[CHOOSE i \in 1..Len(d) : d[i].k = k].v

\* d[k] = v: in place when k is a key, appended otherwise.
RECURSIVE DictSet(_, _, _)
DictSet(d, k, v) ==
    IF d = <<>> THEN <<[k |-> k, v |-> v]>>
    ELSE IF Head(d).k = k THEN <<[k |-> k, v |-> v]>> \o Tail(d)
    ELSE <<Head(d)>> \o DictSet(Tail(d), k, v)

\* del d[k]
DictDel(d, k) == SelectSeq(d, LAMBDA e : e.k # k)

----------------------------------------------------------------------------
(* sorted(clusters_in.items()) *)

\* (k1, s1) < (k2, s2): the keys of a dict differ, so the keys decide.
ItemLess(a, b) == StrLess(a.k, b.k)

RECURSIVE Insert(_, _)
Insert(s, e) ==
    IF s = <<>> THEN <<e>>
    ELSE IF ItemLess(e, Head(s)) THEN <<e>> \o s
    ELSE <<Head(s)>> \o Insert(Tail(s), e)

RECURSIVE SortItems(_)
SortItems(s) == IF s = <<>> THEN <<>> ELSE Insert(SortItems(Tail(s)), Head(s))

Sorted(s) == SortItems(s)

----------------------------------------------------------------------------
(* Base-name derivation, lines 60-84 *)

min_prefix_length == 3

\* Variant: a prefix must be longer than min_prefix_length.
CountNameStrict(d, name) ==
    IF HasDot(name) /\ Len(SplitFirst(name)) > min_prefix_length
    THEN LET prefix == SplitFirst(name)
             seen == IF DictHas(d, prefix) THEN DictGet(d, prefix) ELSE 0
         IN  DictSet(d, prefix, seen + 1)
    ELSE d

\* Lines 65-68 for one member: count its prefix when it qualifies.
CountName(d, name) ==
    IF HasDot(name) /\ Len(SplitFirst(name)) >= min_prefix_length
    THEN LET prefix == SplitFirst(name)
             seen == IF DictHas(d, prefix) THEN DictGet(d, prefix) ELSE 0
         IN  DictSet(d, prefix, seen + 1)
    ELSE d

\* Lines 63-68: the members are visited in the set's iteration order.
RECURSIVE BuildNames(_, _)
BuildNames(d, order) ==
    IF order = <<>> THEN d
    ELSE BuildNames(CountName(d, Head(order)), Tail(order))

NamesBeforeDots(order) == BuildNames(<<>>, order)

RECURSIVE KeyList(_)
KeyList(d) == IF d = <<>> THEN <<>> ELSE <<Head(d).k>> \o KeyList(Tail(d))

RECURSIVE ValueList(_)
ValueList(d) == IF d = <<>> THEN <<>> ELSE <<Head(d).v>> \o ValueList(Tail(d))

RECURSIVE SumList(_)
SumList(l) == IF l = <<>> THEN 0 ELSE Head(l) + SumList(Tail(l))

RECURSIVE MaxList(_)
MaxList(l) ==
    IF Len(l) = 1 THEN Head(l)
    ELSE LET m == MaxList(Tail(l)) IN IF Head(l) >= m THEN Head(l) ELSE m

\* min() and max() of a non-empty list of str.
RECURSIVE StrMin(_)
StrMin(l) ==
    IF Len(l) = 1 THEN Head(l)
    ELSE LET m == StrMin(Tail(l)) IN IF StrLess(m, Head(l)) THEN m ELSE Head(l)

RECURSIVE StrMax(_)
StrMax(l) ==
    IF Len(l) = 1 THEN Head(l)
    ELSE LET m == StrMax(Tail(l)) IN IF StrLess(Head(l), m) THEN m ELSE Head(l)

\* os.path.commonprefix: the leading characters min(m) shares with max(m).
RECURSIVE LeadingMatch(_, _)
LeadingMatch(s1, s2) ==
    IF s1 = <<>> \/ s2 = <<>> \/ Head(s1) # Head(s2) THEN <<>>
    ELSE <<Head(s1)>> \o LeadingMatch(Tail(s1), Tail(s2))

CommonPrefix(m) ==
    IF m = <<>> THEN <<>> ELSE LeadingMatch(StrMin(m), StrMax(m))

\* list.sort() on a list of str.
RECURSIVE StrInsert(_, _)
StrInsert(s, e) ==
    IF s = <<>> THEN <<e>>
    ELSE IF StrLess(e, Head(s)) THEN <<e>> \o s
    ELSE <<Head(s)>> \o StrInsert(Tail(s), e)

RECURSIVE SortStrings(_)
SortStrings(l) ==
    IF l = <<>> THEN <<>> ELSE StrInsert(SortStrings(Tail(l)), Head(l))

\* Variant: the prefixes with the highest count, in the dict's order.
PossibleKeysUnsorted(d) ==
    LET max_value == MaxList(ValueList(d))
        kept == SelectSeq(d, LAMBDA e : e.v = max_value)
    IN  KeyList(kept)

\* Lines 79-81: the prefixes with the highest count, sorted.
PossibleKeys(d) ==
    LET max_value == MaxList(ValueList(d))
        kept == SelectSeq(d, LAMBDA e : e.v = max_value)
    IN  SortStrings(KeyList(kept))

\* Line 78: the common prefix is too short to name the cluster.
TooShort(common_prefix) ==
    common_prefix = <<>> \/ Len(common_prefix) < min_prefix_length

\* Variant: '<=' for '<'.
PartialOrAll(d, size) == SumList(ValueList(d)) <= size

\* Line 74: some member does not carry the single prefix.
Partial(d, size) == SumList(ValueList(d)) < size

\* Lines 70-84: the base name, from names_before_dots and len(name_set).
NewKey(d, size) ==
    IF Len(d) = 0 THEN Cluster
    ELSE IF Len(d) = 1
    THEN IF Partial(d, size) THEN KeyList(d)[1] \o Plus
         ELSE KeyList(d)[1]
    ELSE LET common_prefix == CommonPrefix(KeyList(d))
         IN  IF TooShort(common_prefix)
             THEN PossibleKeys(d)[1] \o Plus
             ELSE common_prefix \o Minus

----------------------------------------------------------------------------
(* Uniqueness resolution, lines 86-100 *)

\* Variant: line 99 without its assertion.
NewNameUnchecked(nc, new_name) == TRUE

\* The three assertions: lines 88, 89 and 99.
KeyCountIsOne(kc, new_key) == kc[new_key] = 1
DemotedNameFree(nc, new_key) == ~DictHas(nc, new_key \o SuffixOne)
NewNameFree(nc, new_name) == ~DictHas(nc, new_name)

\* Variant: the entry is deleted without the copy of line 90.
DemoteDropped(nc, new_key) == DictDel(nc, new_key)

\* Variant: the entry is renamed where it stands.
RECURSIVE DemoteInPlace(_, _)
DemoteInPlace(nc, new_key) ==
    IF nc = <<>> THEN <<>>
    ELSE IF Head(nc).k = new_key
    THEN <<[k |-> new_key \o SuffixOne, v |-> Head(nc).v]>> \o Tail(nc)
    ELSE <<Head(nc)>> \o DemoteInPlace(Tail(nc), new_key)

\* Lines 90-91: the entry new_key is re-keyed new_key + '_1'.
Demote(nc, new_key) ==
    DictDel(DictSet(nc, new_key \o SuffixOne, DictGet(nc, new_key)),
            new_key)

\* Line 94: new_key + '_' + str(count)
Numbered(new_key, count) == new_key \o Underscore \o IntStr(count)

\* Lines 86-100 for the cluster name_set with the base name new_key.
Resolve(nc, kc, name_set, d, new_key) ==
    LET seen == new_key \in DOMAIN kc
        demote == seen /\ DictHas(nc, new_key)
        branch == IF ~seen THEN "first"
                  ELSE IF demote THEN "demote" ELSE "number"
        out(failed, ncx, kcx) ==
            [failed |-> failed, branch |-> branch, names_before_dots |-> d,
             new_key |-> new_key, new_clusters |-> ncx, key_count |-> kcx]
        write(nc1, kc1, new_name) ==
            IF ~NewNameFree(nc1, new_name) THEN out(99, nc1, kc1)
            ELSE out(0, DictSet(nc1, new_name, name_set), kc1)
    IN  IF ~seen
        THEN write(nc, (new_key :> 1) @@ kc, new_key)
        ELSE IF demote /\ ~KeyCountIsOne(kc, new_key)
        THEN out(88, nc, kc)
        ELSE IF demote /\ ~DemotedNameFree(nc, new_key)
        THEN out(89, nc, kc)
        ELSE write(IF demote THEN Demote(nc, new_key) ELSE nc,
                   [kc EXCEPT ![new_key] = @ + 1],
                   Numbered(new_key, kc[new_key] + 1))

\* Lines 70-100, from the prefix table d of the cluster.
Derive(nc, kc, name_set, d) ==
    Resolve(nc, kc, name_set, d, NewKey(d, Cardinality(name_set)))

\* Lines 63-100: one iteration of the loop body for the cluster name_set,
\* whose members are iterated in the given order. failed is the line of the
\* assertion that failed (0 when none did), and new_clusters and key_count
\* are as that line leaves them.
LoopBody(nc, kc, name_set, order) ==
    Derive(nc, kc, name_set, NamesBeforeDots(order))

\* Variant: the counter table outlives the call.
SharedKeyCount(left) == left

\* Lines 58-59: the dicts a call starts from, whatever an earlier call left.
FreshClusters(left) == <<>>
FreshKeyCount(left) == <<>>

----------------------------------------------------------------------------
(* The state machine *)

\* Any partition of at most MaxMembers names into clusters, keyed in any
\* order by the first raw keys.
Init ==
    /\ \E M \in {S \in SUBSET Identifiers : Cardinality(S) \in 1..MaxMembers} :
         \E f \in [M -> RawKeys] :
            /\ {f[m] : m \in M}
                   = {RawKeyList[i] : i \in 1..Cardinality({f[m] : m \in M})}
            /\ clusters_in = [k \in {f[m] : m \in M} |-> {m \in M : f[m] = k}]
    /\ items = <<>>
    /\ idx = 0
    /\ new_clusters = <<>>
    /\ key_count = <<>>
    /\ names_before_dots = <<>>
    /\ derived = <<>>
    /\ pc = "idle"
    /\ results = <<>>

\* _rename_clusters(clusters_in) is called: lines 58-62. The argument's
\* insertion order is any order of its keys.
Call ==
    /\ pc \in {"idle", "returned", "aborted"}
    /\ Len(results) < MaxCalls
    /\ \E order \in Orders(DOMAIN clusters_in) :
           items' = Sorted(Items(clusters_in, order))
    /\ idx' = 0
    /\ new_clusters' = FreshClusters(new_clusters)
    /\ key_count' = FreshKeyCount(key_count)
    /\ names_before_dots' = <<>>
    /\ derived' = <<>>
    /\ pc' = "loop"
    /\ UNCHANGED <<clusters_in, results>>

\* The loop body runs for items[idx + 1] through the given branch and
\* passes every assertion.
Step(branch) ==
    /\ \E order \in Orders(items[idx + 1].v) :
         \E r \in {LoopBody(new_clusters, key_count, items[idx + 1].v, order)} :
             /\ r.failed = 0
             /\ r.branch = branch
             /\ new_clusters' = r.new_clusters
             /\ key_count' = r.key_count
             /\ names_before_dots' = r.names_before_dots
             /\ derived' = Append(derived, r.new_key)
    /\ idx' = idx + 1
    /\ UNCHANGED <<clusters_in, items, pc, results>>

\* Lines 95-97: the base name was not derived before.
IterateFirst ==
    /\ pc = "loop"
    /\ idx < Len(items)
    /\ Step("first")

\* Lines 87-94: the base name is held unsuffixed by an earlier cluster.
IterateDemote ==
    /\ pc = "loop"
    /\ idx < Len(items)
    /\ Step("demote")

\* Lines 93-94: the base name was derived before and is no longer a key.
IterateNumber ==
    /\ pc = "loop"
    /\ idx < Len(items)
    /\ Step("number")

\* An assertion of the iteration fails: AssertionError leaves the call.
AssertFail ==
    /\ pc = "loop"
    /\ idx < Len(items)
    /\ \E order \in Orders(items[idx + 1].v) :
         \E r \in {LoopBody(new_clusters, key_count, items[idx + 1].v, order)} :
             /\ r.failed # 0
             /\ new_clusters' = r.new_clusters
             /\ key_count' = r.key_count
             /\ names_before_dots' = r.names_before_dots
             /\ derived' = Append(derived, r.new_key)
             /\ results' = Append(results, [status |-> "AssertionError",
                                            line |-> r.failed,
                                            value |-> <<>>])
    /\ pc' = "aborted"
    /\ UNCHANGED <<clusters_in, items, idx>>

\* Line 103: return new_clusters.
Return ==
    /\ pc = "loop"
    /\ idx = Len(items)
    /\ pc' = "returned"
    /\ results' = Append(results, [status |-> "returned", line |-> 103,
                                   value |-> new_clusters])
    /\ UNCHANGED <<clusters_in, items, idx, new_clusters, key_count,
                   names_before_dots, derived>>

Next ==
    \/ Call
    \/ IterateFirst
    \/ IterateDemote
    \/ IterateNumber
    \/ AssertFail
    \/ Return

Spec == Init /\ [][Next]_vars

----------------------------------------------------------------------------
(* Vocabulary of the properties, stated without the operators of the model *)

\* The position of the first '.' of a name that has one.
FirstDot(m) ==
    CHOOSE i \in 1..Len(m) : m[i] = Dot /\ \A j \in 1..(i - 1) : m[j] # Dot

\* The name contains '.' and the text before its first '.' has length >= 3.
Qualifies(m) == (\E i \in 1..Len(m) : m[i] = Dot) /\ FirstDot(m) - 1 >= 3

PrefixOf(m) == SubSeq(m, 1, FirstDot(m) - 1)

QualPrefixes(S) == {PrefixOf(m) : m \in {n \in S : Qualifies(n)}}

\* The members of S that carry the qualifying prefix p.
Carrying(S, p) == {m \in S : Qualifies(m) /\ PrefixOf(m) = p}

\* a sorts strictly before b.
LexLess(a, b) ==
    \E i \in 1..Len(b) :
        /\ \A j \in 1..(i - 1) : j <= Len(a) /\ a[j] = b[j]
        /\ i > Len(a) \/ a[i] < b[i]

\* The longest common leading substring of a non-empty set of strings.
StemOf(Q) ==
    LET q0 == CHOOSE q \in Q : TRUE
        shared == {n \in 0..Len(q0) :
                     \A q \in Q : Len(q) >= n /\ SubSeq(q, 1, n) = SubSeq(q0, 1, n)}
    IN  SubSeq(q0, 1, CHOOSE n \in shared : \A o \in shared : o <= n)

\* The prefix with the most members, the smallest one among those tied.
BestOf(S) ==
    CHOOSE p \in QualPrefixes(S) :
        \A q \in QualPrefixes(S) \ {p} :
            \/ Cardinality(Carrying(S, q)) < Cardinality(Carrying(S, p))
            \/ /\ Cardinality(Carrying(S, q)) = Cardinality(Carrying(S, p))
               /\ LexLess(p, q)

Decimal(j) ==
    IF j < 10 THEN <<48 + j>> ELSE <<48 + (j \div 10), 48 + (j % 10)>>

InPass == pc \in {"loop", "returned"}

\* How many of the first n iterations derived the base name b.
TimesDerived(b, n) == Cardinality({q \in 1..n : derived[q] = b})

\* The result holds the cluster S under the name k.
Holds(k, S) ==
    \E i \in 1..Len(new_clusters) :
        new_clusters[i].k = k /\ new_clusters[i].v = S

\* The position of the entry that holds the p-th cluster of items.
PosOf(p) ==
    CHOOSE i \in 1..Len(new_clusters) : new_clusters[i].v = items[p].v

\* The p-th cluster was demoted: it is held under its base name + '_1'.
Demoted(p) == Holds(derived[p] \o Str(<<"_", "1">>), items[p].v)

----------------------------------------------------------------------------
(* C1: _rename_clusters returns normally on every non-empty partition,    *)
(* none of its assertions fails, and the result has one entry per input   *)
(* cluster.                                                               *)
C1_Total ==
    /\ pc # "aborted"
    /\ pc = "returned" => Len(new_clusters) = Cardinality(DOMAIN clusters_in)

(* C2: in every state of a pass the result has one entry per cluster      *)
(* processed, under pairwise distinct names; a step that does not abort   *)
(* keeps every entry (under its name, or under name + '_1') and adds the  *)
(* new cluster; a step that aborts writes nothing.                        *)
C2_Entries ==
    pc \in {"loop", "returned", "aborted"} =>
        /\ Len(new_clusters) = idx
        /\ \A i, j \in 1..Len(new_clusters) :
               i # j => new_clusters[i].k # new_clusters[j].k
        /\ {new_clusters[i].v : i \in 1..Len(new_clusters)}
               = {items[p].v : p \in 1..idx}

C2_Step ==
    pc = "loop" /\ pc' \in {"loop", "aborted"} =>
        /\ \A i \in 1..Len(new_clusters) :
             \E j \in 1..Len(new_clusters') :
                /\ new_clusters'[j].v = new_clusters[i].v
                /\ \/ new_clusters'[j].k = new_clusters[i].k
                   \/ new_clusters'[j].k = new_clusters[i].k \o Str(<<"_", "1">>)
        /\ pc' = "aborted" => Len(new_clusters') = Len(new_clusters)
        /\ pc' = "loop" =>
             /\ Len(new_clusters') = Len(new_clusters) + 1
             /\ \E j \in 1..Len(new_clusters') :
                    new_clusters'[j].v = items[idx + 1].v

C2_NoOverwrite == [][C2_Entries' /\ C2_Step]_vars

C2_Witness ==
    /\ pc = "aborted"
    /\ results[Len(results)].line = 99
    /\ Len(new_clusters) = 2

(* C3: on return the member sets are only re-keyed: every input cluster   *)
(* is the value of exactly one entry, every value is an input cluster,    *)
(* and every member occurs in exactly one entry.                          *)
C3_Rekeyed ==
    pc = "returned" =>
        /\ \A k \in DOMAIN clusters_in :
               Cardinality({i \in 1..Len(new_clusters) :
                              new_clusters[i].v = clusters_in[k]}) = 1
        /\ \A i \in 1..Len(new_clusters) :
               \E k \in DOMAIN clusters_in : new_clusters[i].v = clusters_in[k]
        /\ \A m \in UNION {clusters_in[k] : k \in DOMAIN clusters_in} :
               Cardinality({i \in 1..Len(new_clusters) :
                              m \in new_clusters[i].v}) = 1

C3_Witness ==
    /\ pc = "returned"
    /\ \E p \in 1..idx : Demoted(p) /\ Cardinality(items[p].v) = 2

(* C4: every call on the same raw cluster mapping has the same outcome,   *)
(* whatever the insertion order of the mapping, the iteration order of    *)
(* the member sets and the calls made before.                             *)
C4_Deterministic ==
    \A i, j \in 1..Len(results) : results[i] = results[j]

C4_Witness ==
    /\ Len(results) = 2
    /\ results[2].status = "returned"
    /\ Len(results[2].value) >= 2
    /\ \E p \in 1..idx : Demoted(p)
    /\ Len(names_before_dots) = 2
    /\ LexLess(names_before_dots[2].k, names_before_dots[1].k)

(* C5: clusters are processed in lexicographic raw-key order; in every    *)
(* state of a pass the j-th cluster that derived a base name holds the    *)
(* unsuffixed base while it is the only one, and base + '_' + j once two  *)
(* or more clusters derived it; so a base that two or more clusters       *)
(* derived appears in the result only with a suffix.                      *)
C5_RawKeyNumbering ==
    InPass =>
        /\ \A p, q \in 1..Len(items) :
               p < q => LexLess(items[p].k, items[q].k)
        /\ \A p \in 1..idx :
               Holds(IF TimesDerived(derived[p], idx) = 1 THEN derived[p]
                     ELSE derived[p] \o Str(<<"_">>)
                              \o Decimal(TimesDerived(derived[p], p)),
                     items[p].v)

C5_OnlySuffixed ==
    InPass =>
        \A p \in 1..idx :
            TimesDerived(derived[p], idx) >= 2 =>
                \A i \in 1..Len(new_clusters) :
                    new_clusters[i].k # derived[p]

C5_Numbering == C5_RawKeyNumbering /\ C5_OnlySuffixed

(* C6: the prefix table of a cluster counts exactly the members that      *)
(* contain '.' with at least 3 characters before the first one; a cluster *)
(* without such a member has the base name 'cluster'.                     *)
C6_NoPrefix ==
    /\ \A p \in 1..Len(derived) :
           QualPrefixes(items[p].v) = {} => derived[p] = Str(<<"c", "l", "u", "s", "t", "e", "r">>)
    /\ Len(derived) > 0 =>
           /\ DictKeys(names_before_dots) = QualPrefixes(items[Len(derived)].v)
           /\ \A i \in 1..Len(names_before_dots) :
                  names_before_dots[i].v =
                      Cardinality(Carrying(items[Len(derived)].v,
                                           names_before_dots[i].k))

C6_Witness ==
    /\ pc = "returned"
    /\ \E p \in 1..idx :
           /\ QualPrefixes(items[p].v) = {}
           /\ \E m \in items[p].v : \E i \in 1..Len(m) : m[i] = Dot
           /\ \E m \in items[p].v : \A i \in 1..Len(m) : m[i] # Dot
    /\ \E p \in 1..idx : QualPrefixes(items[p].v) # {}

(* C7: a cluster with exactly one qualifying prefix p has the base name p *)
(* when every member carries p, and p + '+' when some member does not.    *)
C7_SinglePrefix ==
    \A p \in 1..Len(derived) :
        Cardinality(QualPrefixes(items[p].v)) = 1 =>
            LET pre == CHOOSE q \in QualPrefixes(items[p].v) : TRUE
            IN  derived[p] =
                    IF Cardinality(Carrying(items[p].v, pre))
                           < Cardinality(items[p].v)
                    THEN pre \o Str(<<"+">>)
                    ELSE pre

C7_Witness ==
    /\ pc = "returned"
    /\ \E p, q \in 1..idx :
           /\ Cardinality(QualPrefixes(items[p].v)) = 1
           /\ Cardinality(QualPrefixes(items[q].v)) = 1
           /\ Cardinality(items[p].v) = 2
           /\ Cardinality(items[q].v) = 2
           /\ \A m \in items[p].v : Qualifies(m)
           /\ \E m \in items[q].v : ~Qualifies(m)

(* C8: a cluster with two or more qualifying prefixes has the base name   *)
(* stem + '-' when the longest common leading substring of the prefixes   *)
(* has length >= 3, and otherwise the prefix with the highest member      *)
(* count, the smallest among those tied, + '+'; in whatever order the     *)
(* prefixes were collected.                                               *)
C8_ManyPrefixes ==
    \A p \in 1..Len(derived) :
        Cardinality(QualPrefixes(items[p].v)) >= 2 =>
            derived[p] =
                IF Len(StemOf(QualPrefixes(items[p].v))) >= 3
                THEN StemOf(QualPrefixes(items[p].v)) \o Str(<<"-">>)
                ELSE BestOf(items[p].v) \o Str(<<"+">>)

C8_Witness ==
    /\ pc = "returned"
    /\ idx = 2
    /\ Cardinality(QualPrefixes(items[1].v)) = 2
    /\ Cardinality(QualPrefixes(items[2].v)) = 2
    /\ Len(StemOf(QualPrefixes(items[1].v))) = 3
    /\ Len(StemOf(QualPrefixes(items[2].v))) = 0
    /\ Len(names_before_dots) = 2
    /\ LexLess(names_before_dots[2].k, names_before_dots[1].k)

(* C9: the returned mapping lists the clusters that were never demoted in *)
(* lexicographic raw-key order, and a demoted entry base + '_1'           *)
(* immediately before the entry base + '_2' of the second cluster with    *)
(* that base.                                                             *)
C9_Order ==
    pc = "returned" =>
        /\ \A p, q \in 1..Len(items) :
               p < q => LexLess(items[p].k, items[q].k)
        /\ \A p, q \in 1..idx :
               p < q /\ ~Demoted(p) /\ ~Demoted(q) => PosOf(p) < PosOf(q)
        /\ \A p \in 1..idx :
               Demoted(p) =>
                   /\ PosOf(p) < Len(new_clusters)
                   /\ new_clusters[PosOf(p) + 1].k
                          = derived[p] \o Str(<<"_", "2">>)
                   /\ \E q \in (p + 1)..idx :
                          /\ new_clusters[PosOf(p) + 1].v = items[q].v
                          /\ derived[q] = derived[p]
                          /\ TimesDerived(derived[p], q) = 2

C9_Witness ==
    /\ pc = "returned"
    /\ idx = 3
    /\ Demoted(1)
    /\ PosOf(1) = 2
    /\ ~Demoted(2)
    /\ PosOf(2) = 1

(* C10: in every state of a pass a derived base name is a key of the      *)
(* result exactly when one cluster processed so far derived it, and its   *)
(* counter is the number of clusters that derived it.                     *)
C10_BaseKey ==
    InPass =>
        \A p \in 1..idx :
            /\ key_count[derived[p]] = TimesDerived(derived[p], idx)
            /\ DictHas(new_clusters, derived[p])
                   <=> TimesDerived(derived[p], idx) = 1

====
